---- MODULE Spec2Model ----
(***************************************************************************)
(* The WhatsApp bridge of write2gaynor/ai-companion: the connection        *)
(* lifecycle of initWhatsApp and its connection.update handler, the        *)
(* reconnect timers, the message relay (messages.upsert,                   *)
(* handleIncomingMessage, sendMessage) and the HTTP control surface.       *)
(*                                                                         *)
(* Two files hold the service: the revised one (src/unnamed/part_001,      *)
(* lines 1-272) and the earlier one                                        *)
(* (src/whatsapp-service/whatsapp-service.js).  The variable rev says      *)
(* which of the two is running; it never changes.                          *)
(*                                                                         *)
(* An async function is one action per stretch of code between two         *)
(* awaits.  The transport library (Baileys), the QR renderer, the AI       *)
(* backend and the HTTP clients are the environment.                       *)
(***************************************************************************)
EXTENDS Integers, Sequences, FiniteSets, TLC

\* ------------------------------------------------------------- bounds
\* sockets that exist at once when closed sockets are kept (SpecAnyEvents)
MaxSockets == 2
\* connect attempts outstanding at once: reconnect timers pending plus
\* initWhatsApp calls under way
MaxTimers == 2
\* QRCode.toDataURL calls pending at once
MaxRenders == 2
\* inbound messages the transport delivers
MaxMsgs == 2
\* inbound messages the transport delivers when the whole service runs (Spec)
MaxMsgsWhole == 1
\* inbound messages the transport delivers over one established session
\* (SpecSession)
MaxMsgsSession == 3

\* -------------------------------------------------- program constants
\* DisconnectReason.loggedOut
loggedOut == 401
\* the status code of a pairing/query timeout
timedOut == 408
\* a close for any other reason (DisconnectReason.connectionClosed)
connectionClosed == 428
\* a close that carries no error or no status code: statusCode is undefined
noStatusCode == 0
ReconnectDelay == 5000
QrTimeoutDelay == 15000
InitRetryDelay == 15000
InitRetryDelayEarlier == 10000

NULL == "null"
Revisions == {"revised", "earlier"}
Challenges == {"qrA", "qrB"}
CloseCodes == {noStatusCode, loggedOut, timedOut, connectionClosed}
Me == "me"
SockIds == 1..MaxSockets
MsgIds == 1..MaxMsgsSession

\* Strings are sequences of tokens; a token is a run of characters the code
\* never splits.
SWhatsappNet == "@s.whatsapp.net"
AtTokens == {SWhatsappNet, "@g.us"}
UserJid == <<"15550001", SWhatsappNet>>
GroupJid == <<"120363", "@g.us">>
Undefined == <<"(undefined)">>
EmptyString == <<>>
\* a validation that takes the empty string for a value
FalsyUndefinedOnly(x) == x = Undefined
\* !x, for a text x or a missing field
Falsy(x) == x = Undefined \/ x = EmptyString
ReplyText == <<"hi">>
ApologyText == <<"Sorry, I'm having trouble processing your message right now. Please try again in a moment! (robot)">>

\* the messages the transport delivers: key.remoteJid, key.fromMe, and
\* whether message.message is set
Shapes == {[jid |-> UserJid, fromMe |-> FALSE, content |-> TRUE],
           [jid |-> GroupJid, fromMe |-> FALSE, content |-> TRUE],
           [jid |-> UserJid, fromMe |-> TRUE, content |-> TRUE],
           [jid |-> UserJid, fromMe |-> FALSE, content |-> FALSE]}
UpsertTypes == {"notify", "append"}
NoShape == [jid |-> EmptyString, fromMe |-> FALSE, content |-> FALSE]
NoMessage == [shape |-> NoShape, pc |-> "none", calls |-> 0, outcome |-> "none",
              sends |-> <<>>]
\* a field of req.body that is missing, where the field is not a text
NoType == "(undefined)"
NoRequest == [phone_number |-> Undefined, message |-> Undefined, type |-> NoType]
NoPost == [endpoint |-> "none", req |-> NoRequest, pc |-> "none", status |-> 0,
           body |-> [success |-> FALSE, error |-> NULL], sends |-> <<>>]

\* the response of a GET handler: the fields of res.json's argument; a field
\* the endpoint's response does not have is null, or false where it is a flag
NoGet == [endpoint |-> "none", status |-> NULL, connection |-> NULL,
          connection_state |-> NULL, qr |-> NULL, qr_raw |-> NULL,
          connected |-> FALSE, user |-> NULL, qr_available |-> FALSE]

VARIABLES
    rev,              \* which service file runs
    sock,             \* let sock: 0 is null, else the socket makeWASocket returned last
    qrCode,           \* let qrCode
    qrCodeImage,      \* let qrCodeImage (revised service only)
    connectionState,  \* let connectionState
    socks,            \* the sockets made so far: what the transport knows of each
    credsMe,          \* the identity in the stored credentials (auth_info)
    timers,           \* the pending setTimeout(initWhatsApp) calls: their delays
    initPending,      \* initWhatsApp calls waiting at await useMultiFileAuthState
    renders,          \* pending QRCode.toDataURL calls: the challenge of each
    msgs,             \* the inbound messages: what was done for each
    batches,          \* the messages.upsert handlers under way: the ids left
    post,             \* the POST /send or /schedule request handled last
    got               \* the GET request answered last: the response

connVars == <<rev, sock, qrCode, qrCodeImage, connectionState, socks, credsMe,
              timers, initPending, renders>>
relayVars == <<msgs, batches>>
vars == <<connVars, relayVars, post, got>>

RemoveAt(s, i) == SubSeq(s, 1, i - 1) \o SubSeq(s, i + 1, Len(s))

NoSocket == [phase |-> "none", user |-> NULL, code |-> noStatusCode]

\* ------------------------------------------------------ module state
Init ==
    /\ rev \in Revisions
    /\ sock = 0
    /\ qrCode = NULL
    /\ qrCodeImage = NULL
    /\ connectionState = "disconnected"
    /\ socks = [s \in SockIds |-> NoSocket]
    /\ credsMe = NULL    \* a first start: auth_info holds no credentials yet
    /\ timers = <<>>
    /\ initPending = 1
    /\ renders = <<>>
    /\ msgs = [m \in MsgIds |-> NoMessage]
    /\ batches = {}
    /\ post = NoPost
    /\ got = NoGet

\* the service once its first socket has opened: initWhatsApp has run, the
\* socket has reported connecting and open
InitConnected ==
    /\ rev \in Revisions
    /\ sock = 1
    /\ qrCode = NULL
    /\ qrCodeImage = NULL
    /\ connectionState = "connected"
    /\ socks = [s \in SockIds |->
                   IF s = 1 THEN [phase |-> "open", user |-> Me, code |-> noStatusCode]
                   ELSE NoSocket]
    /\ credsMe = Me
    /\ timers = <<>>
    /\ initPending = 0
    /\ renders = <<>>
    /\ msgs = [m \in MsgIds |-> NoMessage]
    /\ batches = {}
    /\ post = NoPost
    /\ got = NoGet

\* ------------------------------------------- connection.update handler
\* QRCode.toDataURL(qr, ...): the image of a challenge
toDataURL(qr) == IF qr = "qrA" THEN "imgA" ELSE "imgB"

\* a close branch that reconnects whatever the reason
shouldReconnectAlways(statusCode) == TRUE

\* const shouldReconnect = statusCode !== DisconnectReason.loggedOut
shouldReconnect(statusCode) == statusCode # loggedOut

\* const delay = statusCode === 408 ? 15000 : 5000
delayRevised(statusCode) ==
    IF statusCode = timedOut THEN QrTimeoutDelay ELSE ReconnectDelay

\* setTimeout(initWhatsApp, 5000)
delayEarlier(statusCode) == ReconnectDelay

reconnectDelay(statusCode) ==
    IF rev = "revised" THEN delayRevised(statusCode) ELSE delayEarlier(statusCode)

\* if (qr) { ... }, up to the await of QRCode.toDataURL.  The earlier service
\* has no image and no await.
qrBranch(qr) ==
    /\ qrCode' = qr
    /\ connectionState' = "qr"
    /\ renders' = IF rev = "revised" THEN Append(renders, qr) ELSE renders
    /\ UNCHANGED <<qrCodeImage, timers>>

\* a catch of the rendering's failure that only logs
qrRenderedKeepsImage(i, ok) ==
    /\ qrCodeImage' = IF ok THEN toDataURL(renders[i]) ELSE qrCodeImage
    /\ renders' = RemoveAt(renders, i)
    /\ UNCHANGED <<qrCode, connectionState, timers>>

\* the rest of if (qr) { ... }: the await of QRCode.toDataURL resumes, with
\* the image or with an exception.  An update that carries qr carries no
\* connection field, so the handler ends here.
qrRendered(i, ok) ==
    /\ qrCodeImage' = IF ok THEN toDataURL(renders[i]) ELSE NULL
    /\ renders' = RemoveAt(renders, i)
    /\ UNCHANGED <<qrCode, connectionState, timers>>

\* a close branch that leaves connectionState as it is
closeBranchKeepsState(statusCode) ==
    /\ connectionState' = connectionState
    /\ qrCode' = NULL
    /\ qrCodeImage' = NULL
    /\ timers' = IF shouldReconnect(statusCode)
                   THEN Append(timers, reconnectDelay(statusCode))
                   ELSE timers
    /\ UNCHANGED renders

\* a close branch that schedules the reconnect twice
closeBranchTwoTimers(statusCode) ==
    /\ connectionState' = "disconnected"
    /\ qrCode' = NULL
    /\ qrCodeImage' = NULL
    /\ timers' = IF shouldReconnect(statusCode)
                   THEN timers \o <<reconnectDelay(statusCode), reconnectDelay(statusCode)>>
                   ELSE timers
    /\ UNCHANGED renders

\* if (connection === 'close') { ... }
closeBranch(statusCode) ==
    /\ connectionState' = "disconnected"
    /\ qrCode' = NULL
    /\ qrCodeImage' = NULL
    /\ timers' = IF shouldReconnect(statusCode)
                   THEN Append(timers, reconnectDelay(statusCode))
                   ELSE timers
    /\ UNCHANGED renders

\* else if (connection === 'open') { ... }
openBranch ==
    /\ connectionState' = "connected"
    /\ qrCode' = NULL
    /\ qrCodeImage' = NULL
    /\ UNCHANGED <<timers, renders>>

\* else if (connection === 'connecting') { ... }: the revised service only
connectingBranch ==
    /\ connectionState' = IF rev = "revised" THEN "connecting" ELSE connectionState
    /\ UNCHANGED <<qrCode, qrCodeImage, timers, renders>>

\* ------------------------------------------------------- initWhatsApp
\* both services retrying after the base reconnect delay
initRetryDelayBase == ReconnectDelay

initRetryDelay == IF rev = "revised" THEN InitRetryDelay ELSE InitRetryDelayEarlier

\* The sockets a new one may take the place of.  A closed socket emits
\* nothing more under the transport's lifecycle, so once sock is reassigned
\* nothing refers to it; when closed sockets may still emit, none is reused.
FreeSockets(lifecycle) ==
    {s \in SockIds : \/ socks[s].phase = "none"
                     \/ lifecycle /\ socks[s].phase = "closed"}

NewSocket(lifecycle) == CHOOSE s \in FreeSockets(lifecycle) :
                            \A t \in FreeSockets(lifecycle) : s <= t

\* try { await useMultiFileAuthState; sock = makeWASocket(...); sock.ev.on ... }
\* the body of the try when nothing throws: connectionState is not assigned
initTry(lifecycle) ==
    /\ sock' = NewSocket(lifecycle)
    /\ socks' = [socks EXCEPT ![NewSocket(lifecycle)] =
                    [phase |-> "new", user |-> credsMe, code |-> noStatusCode]]
    /\ UNCHANGED <<qrCode, qrCodeImage, connectionState, timers>>

\* a catch that sets the state and schedules no retry
initCatchNoRetry ==
    /\ connectionState' = "error"
    /\ qrCode' = IF rev = "revised" THEN NULL ELSE qrCode
    /\ qrCodeImage' = NULL
    /\ UNCHANGED <<timers, sock, socks>>

\* catch (error) { connectionState = 'error'; ...; setTimeout(..., 15000) }
\* (the earlier service: connectionState = 'error'; setTimeout(initWhatsApp, 10000))
initCatch ==
    /\ connectionState' = "error"
    /\ qrCode' = IF rev = "revised" THEN NULL ELSE qrCode
    /\ qrCodeImage' = NULL
    /\ timers' = Append(timers, initRetryDelay)
    /\ UNCHANGED <<sock, socks>>

\* initWhatsApp resumes after await useMultiFileAuthState and runs to its end
InitOk(lifecycle) ==
    /\ initPending > 0
    /\ FreeSockets(lifecycle) # {}
    /\ initPending' = initPending - 1
    /\ initTry(lifecycle)
    /\ UNCHANGED <<rev, credsMe, renders, relayVars, post, got>>

\* useMultiFileAuthState or makeWASocket throws
InitFail ==
    /\ initPending > 0
    /\ initPending' = initPending - 1
    /\ initCatch
    /\ UNCHANGED <<rev, credsMe, renders, relayVars, post, got>>

\* a reconnect timer fires: setTimeout's callback calls initWhatsApp, which
\* runs to its first await
TimerFires(i) ==
    /\ i \in 1..Len(timers)
    /\ timers' = RemoveAt(timers, i)
    /\ initPending' = initPending + 1
    /\ UNCHANGED <<rev, sock, qrCode, qrCodeImage, connectionState, socks,
                   credsMe, renders, relayVars, post, got>>

\* ------------------------------------------------- transport events
\* A socket that was made has the handlers of initWhatsApp registered.  Under
\* the transport's lifecycle a socket reports connecting, then pairing
\* challenges, then open, and close once; lifecycle = FALSE lets a socket
\* emit its lifecycle events in any order.
Emits(lifecycle, s, phases) ==
    /\ socks[s].phase # "none"
    /\ lifecycle => socks[s].phase \in phases

EvConnecting(lifecycle, s) ==
    /\ Emits(lifecycle, s, {"new"})
    /\ socks' = [socks EXCEPT ![s].phase = "connecting"]
    /\ connectingBranch
    /\ UNCHANGED <<rev, sock, credsMe, initPending, relayVars, post, got>>

EvQr(lifecycle, s, qr) ==
    /\ Emits(lifecycle, s, {"connecting", "qr"})
    /\ rev = "revised" => Len(renders) < MaxRenders
    /\ socks' = [socks EXCEPT ![s].phase = "qr"]
    /\ qrBranch(qr)
    /\ UNCHANGED <<rev, sock, credsMe, initPending, relayVars, post, got>>

QrRendered(i, ok) ==
    /\ i \in 1..Len(renders)
    /\ qrRendered(i, ok)
    /\ UNCHANGED <<rev, sock, socks, credsMe, initPending, relayVars, post, got>>

\* the session is established: the transport knows the account's identity
EvOpen(lifecycle, s) ==
    /\ Emits(lifecycle, s, {"connecting", "qr"})
    /\ socks' = [socks EXCEPT ![s].phase = "open", ![s].user = Me]
    /\ credsMe' = Me
    /\ openBranch
    /\ UNCHANGED <<rev, sock, initPending, relayVars, post, got>>

EvClose(lifecycle, s, statusCode) ==
    /\ Emits(lifecycle, s, {"connecting", "qr", "open"})
    /\ shouldReconnect(statusCode) => Len(timers) + initPending < MaxTimers
    /\ socks' = [socks EXCEPT ![s].phase = "closed", ![s].code = statusCode]
    /\ closeBranch(statusCode)
    /\ UNCHANGED <<rev, sock, credsMe, initPending, relayVars, post, got>>

Transport(lifecycle) ==
    \E s \in SockIds :
        \/ EvConnecting(lifecycle, s)
        \/ \E qr \in Challenges : EvQr(lifecycle, s, qr)
        \/ EvOpen(lifecycle, s)
        \/ \E statusCode \in CloseCodes : EvClose(lifecycle, s, statusCode)

Service(lifecycle) ==
    \/ InitOk(lifecycle)
    \/ InitFail
    \/ \E i \in 1..MaxTimers : TimerFires(i)
    \/ \E i \in 1..MaxRenders, ok \in BOOLEAN : QrRendered(i, ok)

\* -------------------------------------------------------- sendMessage
Success == [success |-> TRUE, error |-> NULL]
NotConnected == [success |-> FALSE, error |-> "WhatsApp not connected"]
TransportError == [success |-> FALSE, error |-> "transport error"]
Required == [success |-> FALSE, error |-> "phone_number and message are required"]
\* the promise of sock.sendMessage is not settled yet
Pending == [success |-> FALSE, error |-> "(pending)"]

\* phoneNumber.includes('@')
includesAt(str) == \E i \in 1..Len(str) : str[i] \in AtTokens

\* a jid that gets the suffix whatever the address
toJidAlwaysSuffix(phoneNumber) == phoneNumber \o <<SWhatsappNet>>

\* const jid = phoneNumber.includes('@') ? phoneNumber : `${phoneNumber}@s.whatsapp.net`
toJid(phoneNumber) ==
    IF includesAt(phoneNumber) THEN phoneNumber ELSE phoneNumber \o <<SWhatsappNet>>

\* a guard that looks at the socket handle alone
notConnectedSockOnly == sock = 0

\* if (!sock || connectionState !== 'connected') throw new Error('WhatsApp not connected')
notConnected == sock = 0 \/ connectionState # "connected"

\* sendMessage(phoneNumber, text) up to its await of sock.sendMessage, or to
\* its return when it throws before: the call as the caller sees it.
\* connected is the value of connectionState === 'connected' at the call;
\* invoked says whether sock.sendMessage was called, via which socket and
\* with which jid; transport says how that call ended.
sendMessage(phoneNumber, text) ==
    IF notConnected
    THEN [to |-> phoneNumber, text |-> text,
          connected |-> connectionState = "connected",
          invoked |-> FALSE, via |-> 0, jid |-> EmptyString,
          transport |-> "none", result |-> NotConnected]
    ELSE [to |-> phoneNumber, text |-> text,
          connected |-> connectionState = "connected",
          invoked |-> TRUE, via |-> sock, jid |-> toJid(phoneNumber),
          transport |-> "pending", result |-> Pending]

\* how the promise of sock.sendMessage settled
settled(ok) == IF ok THEN "ok" ELSE "raised"

\* a catch that swallows the transport's error
sendResultAlwaysSuccess(ok) == Success

\* the await of sock.sendMessage resumes: return { success: true }, or the
\* catch: return { success: false, error: error.message }
sendResult(ok) == IF ok THEN Success ELSE TransportError

\* ----------------------------------------------- handleIncomingMessage
RECURSIVE replaceFirst(_, _)
\* str.replace(token, ''): the first occurrence goes
replaceFirst(str, token) ==
    IF str = <<>> THEN <<>>
    ELSE IF Head(str) = token THEN Tail(str)
    ELSE <<Head(str)>> \o replaceFirst(Tail(str), token)

\* a phone number kept in one place for all the messages under way
phoneNumberShared(message) == replaceFirst(UserJid, SWhatsappNet)

\* const phoneNumber = message.key.remoteJid.replace('@s.whatsapp.net', '')
phoneNumber(message) == replaceFirst(message.shape.jid, SWhatsappNet)

\* handleIncomingMessage(message) up to its await of axios.post: one call of
\* the AI backend is under way
handleIncomingMessage(ms, m) ==
    [ms EXCEPT ![m].pc = "backend", ![m].calls = @ + 1]

\* a catch that only logs the backend's failure
relaySendsNoApology(message, outcome) ==
    IF outcome = "reply"
    THEN <<[kind |-> "reply"] @@ sendMessage(phoneNumber(message), ReplyText)>>
    ELSE <<>>

\* an if (response.data.reply) whose else branch apologises
relaySendsApologyOnEmpty(message, outcome) ==
    IF outcome = "reply"
    THEN <<[kind |-> "reply"] @@ sendMessage(phoneNumber(message), ReplyText)>>
    ELSE <<[kind |-> "apology"] @@ sendMessage(phoneNumber(message), ApologyText)>>

\* the sends handleIncomingMessage makes once axios.post has settled:
\* if (response.data.reply) await sendMessage(phoneNumber, response.data.reply)
\* and, in the catch, await sendMessage(phoneNumber, "Sorry, ...").
\* sendMessage never throws, so the catch runs for the backend's failure only.
relaySends(message, outcome) ==
    CASE outcome = "reply" ->
            <<[kind |-> "reply"] @@ sendMessage(phoneNumber(message), ReplyText)>>
      [] outcome = "empty" -> <<>>
      [] outcome = "fail" ->
            <<[kind |-> "apology"] @@ sendMessage(phoneNumber(message), ApologyText)>>

\* handleIncomingMessage from axios.post's settling to the next await or to
\* its return
backendSettled(ms, m, outcome) ==
    LET made == relaySends(ms[m], outcome)
        waits == \E i \in 1..Len(made) : made[i].invoked
    IN  [ms EXCEPT ![m].outcome = outcome,
                   ![m].sends = @ \o made,
                   ![m].pc = IF waits THEN "sending" ELSE "done"]

\* a sendMessage that rethrows: the failed reply send reaches the catch of
\* handleIncomingMessage, which sends the apology
sendSettledRethrows(ms, m, ok) ==
    IF ok
    THEN [ms EXCEPT ![m].sends[Len(ms[m].sends)].result = Success,
                    ![m].sends[Len(ms[m].sends)].transport = "ok",
                    ![m].pc = "done"]
    ELSE [ms EXCEPT ![m].sends =
                        [@ EXCEPT ![Len(@)].result = TransportError,
                                  ![Len(@)].transport = "raised"] \o
                        <<[kind |-> "apology"] @@
                          sendMessage(phoneNumber(ms[m]), ApologyText)>>,
                    ![m].pc = "done"]

\* handleIncomingMessage from sock.sendMessage's settling to its return
sendSettled(ms, m, ok) ==
    [ms EXCEPT ![m].sends[Len(ms[m].sends)].result = sendResult(ok),
               ![m].sends[Len(ms[m].sends)].transport = settled(ok),
               ![m].pc = "done"]

\* ------------------------------------------- messages.upsert handler
\* a filter that looks at message.message alone
relayedContentOnly(shape) == shape.content

\* if (!message.key.fromMe && message.message)
relayed(shape) == ~shape.fromMe /\ shape.content

\* a loop that a message it does not relay ends
skipToStops(ms, rest) ==
    IF rest = <<>> \/ relayed(ms[Head(rest)].shape) THEN rest ELSE <<>>

RECURSIVE skipTo(_, _)
\* the messages of the for loop from the first one it relays
skipTo(ms, rest) ==
    IF rest = <<>> \/ relayed(ms[Head(rest)].shape) THEN rest
    ELSE skipTo(ms, Tail(rest))

\* for (const message of messages) { if (...) await handleIncomingMessage(message) }
\* over the messages left, up to the next await
forLoop(ms, rest) ==
    LET left == skipTo(ms, rest)
        skipped == {rest[i] : i \in 1..(Len(rest) - Len(left))}
        ms1 == [m \in MsgIds |->
                   IF m \in skipped THEN [ms[m] EXCEPT !.pc = "skipped"] ELSE ms[m]]
    IN  IF left = <<>> THEN ms1 ELSE handleIncomingMessage(ms1, Head(left))

\* the handler under way that waits for message m
BatchOf(m) == CHOOSE b \in batches : Head(b) = m

\* handleIncomingMessage(m) has returned: the for loop goes on
loopResumes(ms, m) ==
    /\ msgs' = forLoop(ms, Tail(BatchOf(m)))
    /\ batches' = (batches \ {BatchOf(m)}) \cup
                  ({skipTo(ms, Tail(BatchOf(m)))} \ {<<>>})

\* sock.ev.on('messages.upsert', async ({ messages, type }) => { ... })
upsert(ms, ids, type) ==
    IF type = "notify"
    THEN /\ msgs' = forLoop(ms, ids)
         /\ batches' = batches \cup ({skipTo(ms, ids)} \ {<<>>})
    ELSE /\ msgs' = [m \in MsgIds |->
                       IF \E i \in 1..Len(ids) : ids[i] = m
                       THEN [ms[m] EXCEPT !.pc = "ignored"] ELSE ms[m]]
         /\ batches' = batches

Delivered == Cardinality({m \in MsgIds : msgs[m].pc # "none"})

\* the transport delivers the next n messages in one messages.upsert event
EvMessages(lifecycle, limit, s, type, shapes) ==
    /\ Emits(lifecycle, s, {"open"})
    /\ Delivered + Len(shapes) <= limit
    /\ LET ids == [i \in 1..Len(shapes) |-> Delivered + i]
           ms == [m \in MsgIds |->
                     IF m > Delivered /\ m <= Delivered + Len(shapes)
                     THEN [msgs[m] EXCEPT !.shape = shapes[m - Delivered],
                                          !.pc = "queued"]
                     ELSE msgs[m]]
       IN  upsert(ms, ids, type)
    /\ UNCHANGED <<connVars, post, got>>

\* the AI backend answers with a reply, with no reply, or the call fails
\* (timeout, network error, non-2xx, a body without data)
BackendSettles(m, outcome) ==
    /\ msgs[m].pc = "backend"
    /\ LET ms == backendSettled(msgs, m, outcome)
       IN  IF ms[m].pc = "done"
           THEN loopResumes(ms, m)
           ELSE msgs' = ms /\ batches' = batches
    /\ UNCHANGED <<connVars, post, got>>

\* the transport settles the sock.sendMessage call of message m
RelaySendSettles(m, ok) ==
    /\ msgs[m].pc = "sending"
    /\ loopResumes(sendSettled(msgs, m, ok), m)
    /\ UNCHANGED <<connVars, post, got>>

ShapeSeqs == UNION {[1..n -> Shapes] : n \in 1..MaxMsgs}

Relay(lifecycle, limit) ==
    \/ \E s \in SockIds, type \in UpsertTypes, shapes \in ShapeSeqs :
           EvMessages(lifecycle, limit, s, type, shapes)
    \/ \E m \in MsgIds, outcome \in {"reply", "empty", "fail"} :
           BackendSettles(m, outcome)
    \/ \E m \in MsgIds, ok \in BOOLEAN : RelaySendSettles(m, ok)

\* ------------------------------------------------------ HTTP handlers
\* app.get('/health', ...): the response body
healthResponse == [status |-> "healthy", connection |-> connectionState]

\* app.get('/qr', ...): the response body; the earlier service returns the
\* raw challenge as qr and has no qr_raw
qrResponse ==
    IF rev = "revised"
    THEN [qr |-> qrCodeImage, qr_raw |-> qrCode, connection_state |-> connectionState]
    ELSE [qr |-> qrCode, connection_state |-> connectionState]

\* a status that reports the challenge as available while an image is held
statusResponseByImage ==
    [connected |-> connectionState = "connected",
     connection_state |-> connectionState,
     user |-> IF sock = 0 THEN NULL ELSE socks[sock].user,
     qr_available |-> qrCodeImage # NULL]

\* app.get('/status', ...): the response body
statusResponse ==
    [connected |-> connectionState = "connected",
     connection_state |-> connectionState,
     user |-> IF sock = 0 THEN NULL ELSE socks[sock].user,
     qr_available |-> qrCode # NULL]

\* res.json(body) of a GET handler
answered(endpoint, body) == [endpoint |-> endpoint] @@ body @@ NoGet

GetHealth ==
    /\ got' = answered("health", healthResponse)
    /\ UNCHANGED <<connVars, relayVars, post>>

\* a GET /qr that hands the challenge out once
GetQrConsumes ==
    /\ got' = answered("qr", qrResponse)
    /\ qrCode' = NULL
    /\ UNCHANGED <<rev, sock, qrCodeImage, connectionState, socks, credsMe,
                   timers, initPending, renders, relayVars, post>>

GetQr ==
    /\ got' = answered("qr", qrResponse)
    /\ UNCHANGED <<connVars, relayVars, post>>

GetStatus ==
    /\ got' = answered("status", statusResponse)
    /\ UNCHANGED <<connVars, relayVars, post>>

Get == GetHealth \/ GetQr \/ GetStatus

PostPhones == {Undefined, EmptyString, <<"15550001">>}
PostMessages == {Undefined, EmptyString, <<"Are you ok?">>}
PostTypes == {NoType, NULL, "welfare_check", "reminder", "good_morning", "plain"}

\* a destructuring without the default
defaultTypeNone(type) == type

\* const { phone_number, message, type = 'reminder' } = req.body
defaultType(type) == IF type = NoType THEN "reminder" ELSE type

\* let formattedMessage = message; if (type === 'welfare_check') ...
formattedMessage(type, message) ==
    CASE type = "welfare_check" -> <<"(sunrise) ">> \o message
      [] type = "reminder" -> <<"(alarm clock) ">> \o message
      [] type = "good_morning" -> <<"(sun) ">> \o message
      [] OTHER -> message

\* the handler of POST /send and of POST /schedule, from the request to the
\* await of sock.sendMessage or to the response; text is the message
\* sendMessage is given when the request is valid
postHandler(endpoint, req, text) ==
    IF Falsy(req.phone_number) \/ Falsy(req.message)
    THEN [endpoint |-> endpoint, req |-> req, pc |-> "responded", status |-> 400,
          body |-> Required, sends |-> <<>>]
    ELSE LET call == [kind |-> endpoint] @@ sendMessage(req.phone_number, text)
         IN  IF call.invoked
             THEN [endpoint |-> endpoint, req |-> req, pc |-> "sending",
                   status |-> 0, body |-> Pending, sends |-> <<call>>]
             ELSE [endpoint |-> endpoint, req |-> req, pc |-> "responded",
                   status |-> 200, body |-> call.result, sends |-> <<call>>]

\* a POST /send that formats its message as a reminder
PostSendFormatted(phone_number, message) ==
    /\ post.pc # "sending"
    /\ post' = postHandler("send",
                           [phone_number |-> phone_number, message |-> message,
                            type |-> NoType],
                           formattedMessage("reminder", message))
    /\ UNCHANGED <<connVars, relayVars, got>>

\* app.post('/send', ...)
PostSend(phone_number, message) ==
    /\ post.pc # "sending"
    /\ post' = postHandler("send",
                           [phone_number |-> phone_number, message |-> message,
                            type |-> NoType],
                           message)
    /\ UNCHANGED <<connVars, relayVars, got>>

\* app.post('/schedule', ...)
PostSchedule(phone_number, message, type) ==
    /\ post.pc # "sending"
    /\ post' = postHandler("schedule",
                           [phone_number |-> phone_number, message |-> message,
                            type |-> type],
                           formattedMessage(defaultType(type), message))
    /\ UNCHANGED <<connVars, relayVars, got>>

\* const result = await sendMessage(...); res.json(result)
PostSendSettles(ok) ==
    /\ post.pc = "sending"
    /\ post' = [post EXCEPT !.pc = "responded", !.status = 200,
                            !.body = sendResult(ok),
                            !.sends[1].result = sendResult(ok),
                            !.sends[1].transport = settled(ok)]
    /\ UNCHANGED <<connVars, relayVars, got>>

Http(types) ==
    \/ \E phone_number \in PostPhones, message \in PostMessages :
           PostSend(phone_number, message)
    \/ \E phone_number \in PostPhones, message \in PostMessages, type \in types :
           PostSchedule(phone_number, message, type)
    \/ \E ok \in BOOLEAN : PostSendSettles(ok)

\* the whole service, the transport keeping to its lifecycle
Next ==
    \/ Service(TRUE)
    \/ Transport(TRUE)
    \/ Relay(TRUE, MaxMsgsWhole)
    \/ Http({NoType, "welfare_check"})
Spec == Init /\ [][Next]_vars

\* the connection manager alone: no inbound message, no HTTP request
NextConnection == Service(TRUE) \/ Transport(TRUE)
SpecConnection == Init /\ [][NextConnection]_vars

\* the connection manager and the message relay
NextRelay == Service(TRUE) \/ Transport(TRUE) \/ Relay(TRUE, MaxMsgs)
SpecRelay == Init /\ [][NextRelay]_vars

\* the connection manager and the HTTP handlers
NextHttp == Service(TRUE) \/ Transport(TRUE) \/ Http(PostTypes)
SpecHttp == Init /\ [][NextHttp]_vars

\* the connection manager and the GET handlers
NextGet == Service(TRUE) \/ Transport(TRUE) \/ Get
SpecGet == Init /\ [][NextGet]_vars

\* every handler of the service, each in every state of the connection
\* manager; the clients of one run use one interface: inbound messages, POST
\* requests or GET requests
NoInbound == \A m \in MsgIds : msgs[m].pc = "none"
NextFrame ==
    \/ Service(TRUE)
    \/ Transport(TRUE)
    \/ post = NoPost /\ got = NoGet /\ Relay(TRUE, MaxMsgsWhole)
    \/ NoInbound /\ got = NoGet /\ Http({NoType, "welfare_check"})
    \/ NoInbound /\ post = NoPost /\ Get
SpecFrame == Init /\ [][NextFrame]_vars

\* the connection manager alone, under a transport that emits its lifecycle
\* events in any order
NextAnyEvents == Service(FALSE) \/ Transport(FALSE)
SpecAnyEvents == Init /\ [][NextAnyEvents]_vars

\* the message relay over one established session, from open to close
NextSession ==
    \/ Relay(TRUE, MaxMsgsSession)
    \/ \E s \in SockIds, statusCode \in CloseCodes : EvClose(TRUE, s, statusCode)
SpecSession == InitConnected /\ [][NextSession]_vars

\* an established session that delivers no more than MaxMsgs messages, every
\* AI-backend call and every transport send settling in the end: axios.post
\* has a 30 s timeout
NextSessionPair ==
    \/ Relay(TRUE, MaxMsgs)
    \/ \E s \in SockIds, statusCode \in CloseCodes : EvClose(TRUE, s, statusCode)
SpecSessionPairFair ==
    /\ InitConnected /\ [][NextSessionPair]_vars
    /\ \A m \in MsgIds :
           /\ WF_vars(\E outcome \in {"reply", "empty", "fail"} : BackendSettles(m, outcome))
           /\ WF_vars(\E ok \in BOOLEAN : RelaySendSettles(m, ok))

\* the connection manager alone, its reconnect timers firing when due
SpecConnectionFair ==
    SpecConnection /\ WF_vars(\E i \in 1..MaxTimers : TimerFires(i))

\* ---------------------------------------------------------------- claims
\* the calls of sendMessage on record: the relay's and the POST handlers'
RelayCalls ==
    UNION {{msgs[m].sends[i] : i \in 1..Len(msgs[m].sends)} : m \in MsgIds}
PostCalls == {post.sends[i] : i \in 1..Len(post.sends)}

\* the socket the service holds was closed with the logged-out code
SessionLoggedOut ==
    /\ sock # 0
    /\ socks[sock].phase = "closed"
    /\ socks[sock].code = loggedOut

\* this step handles the close event of socket s with this status code
ClosedBy(s, statusCode) ==
    /\ socks[s].phase # "closed"
    /\ socks'[s].phase = "closed"
    /\ socks'[s].code = statusCode

\* this step is a connect attempt that ends in the catch: no socket is made
InitFailed == initPending' = initPending - 1 /\ socks' = socks

NoLiveSocket == \A s \in SockIds : socks[s].phase \in {"none", "closed"}

\* C1: a call of sendMessage made while connectionState is not 'connected',
\* by POST /send, POST /schedule, a relay reply or a relay apology, returns
\* the failure 'WhatsApp not connected' and does not call sock.sendMessage.
C1_NotConnectedSendFails ==
    \A c \in RelayCalls \cup PostCalls :
        ~c.connected => ~c.invoked /\ c.via = 0 /\ c.result = NotConnected

\* an apology and a scheduled message were both sent while not connected
C1_Witness ==
    /\ \E c \in RelayCalls : c.kind = "apology" /\ ~c.connected
    /\ \E c \in PostCalls : c.kind = "schedule" /\ ~c.connected

\* C2: qrCode and qrCodeImage are non-null only while the state is 'qr', at
\* every point a reader can observe, the points between the start and the
\* end of a rendering included.
C2_PairingFieldsOnlyWhilePairing ==
    (qrCode # NULL \/ qrCodeImage # NULL) => connectionState = "qr"

\* C3: the user field of GET /status is non-null only while the state is
\* 'connected'.
C3_IdentityOnlyWhileConnected ==
    statusResponse.user # NULL => connectionState = "connected"

\* C4: at any time at most one reconnect timer is pending.
C4_AtMostOneReconnectTimer == Len(timers) <= 1

\* C5: the close event with the logged-out code sets the state to
\* disconnected, clears qrCode and qrCodeImage and schedules no timer;
\* from then on no timer is pending, no connect attempt starts, no socket is
\* made and the state stays disconnected.
C5_LoggedOutIsTerminal ==
    [][/\ (SessionLoggedOut' /\ ~SessionLoggedOut) =>
              /\ connectionState' = "disconnected"
              /\ qrCode' = NULL
              /\ qrCodeImage' = NULL
              /\ timers' = timers
       /\ SessionLoggedOut =>
              /\ SessionLoggedOut'
              /\ connectionState' = "disconnected"
              /\ timers' = <<>>
              /\ initPending' = 0
              /\ sock' = sock]_vars

\* the session was logged out
C5_Witness == SessionLoggedOut /\ connectionState = "disconnected"

\* C6: every close event whose status code is not the logged-out code
\* schedules exactly one reconnect, after 15 s when the code is 408 and
\* after 5 s otherwise.
C6_NonLogoutCloseSchedulesOne ==
    [][\A s \in SockIds, statusCode \in CloseCodes \ {401} :
           ClosedBy(s, statusCode) =>
               timers' = Append(timers, IF statusCode = 408 THEN 15000 ELSE 5000)]_vars

C8_ReconnectUnbounded ==
    /\ [](NoLiveSocket /\ ~SessionLoggedOut => timers # <<>> \/ initPending > 0)
    /\ [](timers # <<>> => <>(initPending > 0))

\* a connect attempt failed and the next one is under way
C8_Witness == connectionState = "error" /\ initPending > 0 /\ timers = <<>>

C10_AtMostOneCallOneSend ==
    \A m \in MsgIds :
        /\ msgs[m].calls <= 1
        /\ Len(msgs[m].sends) <= 1
        /\ msgs[m].outcome = "reply" =>
               /\ Len(msgs[m].sends) = 1
               /\ msgs[m].sends[1].kind = "reply"
               /\ msgs[m].sends[1].text = ReplyText
               /\ msgs[m].sends[1].to = phoneNumber(msgs[m])

\* the backend replied and the reply's send failed
C10_Witness ==
    \E m \in MsgIds :
        /\ msgs[m].outcome = "reply"
        /\ msgs[m].pc = "done"
        /\ msgs[m].sends[1].result \in {TransportError, NotConnected}

\* C11: when the AI backend answers with an empty or absent reply, no send is
\* made for that message, neither a reply nor an apology, and the handler
\* goes on to its end.
C11_EmptyReplyNoSend ==
    \A m \in MsgIds :
        msgs[m].outcome = "empty" =>
            /\ msgs[m].sends = <<>>
            /\ msgs[m].calls = 1
            /\ msgs[m].pc = "done"

\* on an open session the backend answered a message with no reply
C11_Witness ==
    /\ connectionState = "connected"
    /\ \E m \in MsgIds : msgs[m].outcome = "empty" /\ msgs[m].pc = "done"

\* C12: a message whose key.fromMe is set causes no AI-backend call and no
\* send, in a notify delivery and in any other.
C12_OwnMessagesNeverRelayed ==
    \A m \in MsgIds :
        msgs[m].shape.fromMe =>
            /\ msgs[m].calls = 0
            /\ msgs[m].sends = <<>>
            /\ msgs[m].pc \in {"none", "queued", "skipped", "ignored"}

\* a reply was sent for a message and the for loop has passed, in a notify
\* delivery, a later message of the bridge's own account with content
C12_Witness ==
    \E m1, m2 \in MsgIds :
        /\ m1 < m2
        /\ msgs[m1].sends # <<>> /\ msgs[m1].sends[1].result = Success
        /\ msgs[m2].shape.fromMe /\ msgs[m2].shape.content
        /\ msgs[m2].pc = "skipped"

\* C13: no inbound message that is to be relayed waits for an earlier one:
\* its AI-backend call is issued in the step that delivers it, whether the
\* earlier message came in the same messages.upsert event or in another.
C13_RelayedWithoutWaiting ==
    \A m \in MsgIds : msgs[m].pc = "queued" => ~relayed(msgs[m].shape)

\* C14: the AI-backend calls of one sender are issued in the arrival order of
\* that sender's messages: when the call of a message is issued, the call of
\* every earlier relayed message of the same remoteJid has been issued.
C14_BackendCallsInArrivalOrder ==
    [][\A m1, m2 \in MsgIds :
           (/\ m1 < m2
            /\ msgs'[m1].shape.jid = msgs'[m2].shape.jid
            /\ relayed(msgs'[m1].shape)
            /\ msgs'[m1].pc \notin {"none", "ignored"}
            /\ msgs[m2].calls = 0
            /\ msgs'[m2].calls = 1) => msgs'[m1].calls = 1]_vars

\* C15: every relay call under way completes, and every reply or apology of
\* a message is addressed to the remoteJid of that same message, whatever
\* the order in which the backend answers.
C15_ConcurrentRelaysKeepTheirSender ==
    /\ [](\A m \in MsgIds : \A i \in 1..Len(msgs[m].sends) :
             /\ msgs[m].sends[i].to = replaceFirst(msgs[m].shape.jid, SWhatsappNet)
             /\ msgs[m].sends[i].invoked => msgs[m].sends[i].jid = msgs[m].shape.jid)
    /\ \A m \in MsgIds :
           [](msgs[m].pc \in {"backend", "sending"} => <>(msgs[m].pc = "done"))

\* the calls of two senders were under way together and the later message
\* was answered first: its reply is sent, the earlier call still waits
C15_Witness ==
    \E m1, m2 \in MsgIds :
        /\ m1 < m2
        /\ msgs[m1].shape.jid # msgs[m2].shape.jid
        /\ msgs[m1].pc = "backend"
        /\ msgs[m2].pc = "done"
        /\ msgs[m2].sends # <<>>
        /\ msgs[m2].sends[1].kind = "reply"
        /\ msgs[m2].sends[1].result = Success

\* C16: POST /schedule gives sendMessage the prefix of the category followed
\* by the message: the sunrise for welfare_check, the alarm clock for
\* reminder and for a request without type, the sun for good_morning,
\* nothing for any other value; no value of type makes the handler fail.
C16_SchedulePrefixes ==
    (/\ post.endpoint = "schedule"
     /\ post.req.phone_number \notin {Undefined, EmptyString}
     /\ post.req.message \notin {Undefined, EmptyString}) =>
        /\ Len(post.sends) = 1
        /\ post.sends[1].text =
               (CASE post.req.type = "welfare_check" -> <<"(sunrise) ">>
                  [] post.req.type \in {"reminder", NoType} -> <<"(alarm clock) ">>
                  [] post.req.type = "good_morning" -> <<"(sun) ">>
                  [] OTHER -> <<>>) \o post.req.message
        /\ post.sends[1].to = post.req.phone_number
        /\ post.status \in {0, 200}

\* a scheduled message without type was sent on an open session
C16_Witness ==
    /\ post.endpoint = "schedule"
    /\ post.req.type = NoType
    /\ post.pc = "responded"
    /\ post.sends # <<>>
    /\ post.sends[1].text = <<"(alarm clock) ", "Are you ok?">>
    /\ post.body = Success

\* C17: a POST /send or POST /schedule whose phone_number or message is
\* missing or empty is answered with 400 and success false, calls no
\* sendMessage and changes no field of the session, in every session state.
C17_InvalidRequestRejected ==
    [][(/\ post' # post
        /\ \/ post'.req.phone_number \in {Undefined, EmptyString}
           \/ post'.req.message \in {Undefined, EmptyString}) =>
           /\ post'.pc = "responded"
           /\ post'.status = 400
           /\ post'.body.success = FALSE
           /\ post'.body.error = "phone_number and message are required"
           /\ post'.sends = <<>>
           /\ UNCHANGED <<connVars, relayVars, got>>]_vars

\* on an open session a request with an empty message was rejected
C17_Witness ==
    /\ connectionState = "connected"
    /\ post.status = 400
    /\ post.req.phone_number = <<"15550001">>
    /\ post.req.message = EmptyString

\* C18: a valid POST /send or POST /schedule whose transport send raised is
\* answered with HTTP status 500.
C18_TransportErrorIs500 ==
    (/\ post.pc = "responded"
     /\ post.sends # <<>>
     /\ post.sends[1].transport = "raised") => post.status = 500

\* C19: sendMessage returns a result for every call: on a connected session
\* it calls sock.sendMessage, and returns success when that call succeeds and
\* success false with an error text when it raises; the body of a valid
\* POST /send or POST /schedule is that result, sent by res.json and not by
\* the handler's catch.
C19_SendAlwaysReturnsItsResult ==
    /\ \A c \in PostCalls :
           /\ c.connected => c.invoked /\ c.via # 0
           /\ ~c.invoked => c.transport = "none"
           /\ c.transport = "ok" => c.result = [success |-> TRUE, error |-> NULL]
           /\ c.transport \in {"raised", "none"} =>
                  ~c.result.success /\ c.result.error # NULL
    /\ (post.pc = "responded" /\ post.status # 400) =>
           /\ Len(post.sends) = 1
           /\ post.sends[1].transport # "pending"
           /\ post.body = post.sends[1].result
           /\ post.status = 200

\* the transport raised on the send of a POST /send
C19_Witness ==
    /\ post.endpoint = "send"
    /\ post.pc = "responded"
    /\ post.sends # <<>>
    /\ post.sends[1].transport = "raised"
    /\ post.body = TransportError

\* C20: when GET /qr returns an image together with a raw challenge, the
\* image is the rendering of that challenge.
C20_ImageMatchesChallenge ==
    (qrCodeImage # NULL /\ qrCode # NULL) =>
        qrCodeImage = (IF qrCode = "qrA" THEN "imgA" ELSE "imgB")

\* C21: a step of GET /health, GET /qr, GET /status, POST /send,
\* POST /schedule, of the messages.upsert handler, of handleIncomingMessage
\* or of sendMessage leaves connectionState, qrCode, qrCodeImage and sock as
\* they are, whatever its outcome.
C21_HandlersLeaveTheSession ==
    [][(got' # got \/ post' # post \/ msgs' # msgs \/ batches' # batches) =>
           UNCHANGED <<connectionState, qrCode, qrCodeImage, sock>>]_vars

\* a GET /qr was answered while a challenge is held, and the challenge is
\* still there
C21_Witness ==
    /\ got.endpoint = "qr"
    /\ got.connection_state = "qr"
    /\ connectionState = "qr"
    /\ qrCode # NULL

\* the sockets that are open or on their way to it
LiveSockets == {s \in SockIds : socks[s].phase \in {"new", "connecting", "qr", "open"}}

\* the edges of the specified machine
SpecifiedEdges ==
    {<<"disconnected", "connecting">>, <<"connecting", "qr">>,
     <<"connecting", "connected">>, <<"qr", "connected">>,
     <<"connecting", "disconnected">>, <<"qr", "disconnected">>,
     <<"connected", "disconnected">>} \cup
    {<<from, "error">> : from \in {"disconnected", "connecting", "qr", "connected"}}

\* C22: connectionState is always one of the five states, the service starts
\* disconnected with no challenge, no image and no socket, and every change
\* of connectionState follows an edge of the specified machine.
C22_StateFollowsTheMachine ==
    /\ (connectionState = "disconnected" /\ qrCode = NULL /\ qrCodeImage = NULL
           /\ sock = 0)
    /\ [](connectionState \in {"disconnected", "connecting", "qr", "connected", "error"})
    /\ [][connectionState' # connectionState =>
              <<connectionState, connectionState'>> \in SpecifiedEdges]_vars

\* C23: while a connect attempt is under way (initWhatsApp is running, or the
\* socket it made has not yet been established or closed) connectionState is
\* neither disconnected nor error.
C23_AttemptIsConnecting ==
    (\/ initPending > 0
     \/ sock # 0 /\ socks[sock].phase \in {"new", "connecting"}) =>
        connectionState \notin {"disconnected", "error"}

\* C24: a pairing challenge sets the state to 'qr' and stores the challenge;
\* when its rendering settles, the image is that rendering or, when it
\* failed, null, never the image held before, and the state and the
\* challenge are as they were.
C24_FailedRenderingLeavesNoImage ==
    [][/\ (qrCode' # qrCode /\ qrCode' # NULL) => connectionState' = "qr"
       /\ Len(renders') < Len(renders) =>
              /\ \E i \in 1..Len(renders) :
                     /\ renders' = RemoveAt(renders, i)
                     /\ qrCodeImage' \in {NULL, IF renders[i] = "qrA" THEN "imgA" ELSE "imgB"}
              /\ connectionState' = connectionState
              /\ qrCode' = qrCode]_vars

\* the revised service holds a challenge in the pairing state, its rendering
\* has settled and no image is held
C24_Witness ==
    /\ rev = "revised"
    /\ connectionState = "qr"
    /\ qrCode = "qrB"
    /\ renders = <<>>
    /\ qrCodeImage = NULL

\* C25: GET /status reports connected exactly when connectionState is
\* 'connected' and qr_available exactly when it is 'qr', never both; GET
\* /health, GET /qr and GET /status of one instant report the same state.
C25_StatusFlagsMatchTheState ==
    /\ statusResponse.connected = (connectionState = "connected")
    /\ statusResponse.qr_available = (connectionState = "qr")
    /\ ~(statusResponse.connected /\ statusResponse.qr_available)
    /\ healthResponse.connection = statusResponse.connection_state
    /\ qrResponse.connection_state = statusResponse.connection_state
    /\ got.endpoint = "status" =>
           /\ got.connected = (got.connection_state = "connected")
           /\ got.qr_available = (got.connection_state = "qr")

\* GET /status was answered in the pairing state
C25_Witness ==
    /\ got.endpoint = "status"
    /\ got.qr_available
    /\ got.connection_state = "qr"
    /\ connectionState = "qr"

\* C26: the close event of the open socket can be handled while an
\* AI-backend call is pending, and a reply or an apology whose send is
\* attempted while the socket held is not open returns 'WhatsApp not
\* connected' without calling sock.sendMessage.
C26_CloseDoesNotWaitForRelays ==
    /\ []((/\ sock # 0
            /\ socks[sock].phase = "open"
            /\ \E m \in MsgIds : msgs[m].pc \in {"backend", "sending"}) =>
              ENABLED (\E statusCode \in CloseCodes : EvClose(TRUE, sock, statusCode)))
    /\ [][\A m \in MsgIds :
              (/\ Len(msgs'[m].sends) > Len(msgs[m].sends)
               /\ sock = 0 \/ socks[sock].phase # "open") =>
                  /\ ~msgs'[m].sends[Len(msgs'[m].sends)].invoked
                  /\ msgs'[m].sends[Len(msgs'[m].sends)].result = NotConnected]_vars

\* a message came in on the open socket, the socket closed while the backend
\* call was pending and the reply was refused
C26_Witness ==
    \E m \in MsgIds :
        /\ msgs[m].outcome = "reply"
        /\ msgs[m].pc = "done"
        /\ msgs[m].sends[1].result = NotConnected
        /\ connectionState = "disconnected"

\* C27: the text of a relay reply is the backend's reply and the text of a
\* POST /send is the request's message, with no prefix; POST /schedule with a
\* known category hands over a text that is not the request's message.
C27_RepliesAndSendsUnformatted ==
    /\ \A c \in RelayCalls : c.kind = "reply" => c.text = ReplyText
    /\ \A c \in PostCalls :
           /\ c.kind = "send" => c.text = post.req.message
           /\ (c.kind = "schedule" /\ post.req.type \in {NoType, "welfare_check"}) =>
                  /\ c.text # post.req.message
                  /\ Tail(c.text) = post.req.message

\* a reply was relayed and a POST /send went through the transport
C27_Witness ==
    /\ \E c \in RelayCalls : c.kind = "reply" /\ c.transport = "ok"
    /\ \E c \in PostCalls : c.kind = "send" /\ c.transport = "ok"

\* C28: the jid sendMessage builds for a reply or an apology is the remoteJid
\* of the message: the suffix '@s.whatsapp.net' is stripped and added again,
\* an address with another suffix is left as it is.
C28_AddressRoundTrips ==
    /\ \A shape \in Shapes :
           /\ shape.jid = UserJid => phoneNumber([shape |-> shape]) = <<"15550001">>
           /\ shape.jid = GroupJid => phoneNumber([shape |-> shape]) = GroupJid
    /\ \A m \in MsgIds : \A i \in 1..Len(msgs[m].sends) :
           msgs[m].sends[i].invoked => msgs[m].sends[i].jid = msgs[m].shape.jid

\* a reply went to a group and a reply or an apology to a single sender
C28_Witness ==
    \E m1, m2 \in MsgIds :
        /\ msgs[m1].shape.jid = GroupJid
        /\ msgs[m1].sends # <<>> /\ msgs[m1].sends[1].jid = GroupJid
        /\ msgs[m2].shape.jid = UserJid
        /\ msgs[m2].sends # <<>> /\ msgs[m2].sends[1].jid = UserJid

\* C29: at most one socket is open or on its way to it, and it is the one
\* sock holds: initWhatsApp makes a socket only when no other is live.
C29_AtMostOneLiveSocket ==
    /\ Cardinality(LiveSockets) <= 1
    /\ LiveSockets \subseteq {sock}

\* a socket was established and closed, and the socket made after it is
\* connecting
C29_Witness ==
    /\ credsMe = Me
    /\ sock # 0
    /\ socks[sock].phase = "connecting"
    /\ LiveSockets = {sock}

\* C30: the session is written by the events of the socket sock holds: an
\* event of a socket that sock has replaced changes neither connectionState
\* nor the challenge nor the image, also when the handler of that event
\* resumes from its await after the socket was replaced, so that 'connected'
\* always means that sock is the socket that was established.
C30_ReplacedSocketIsIgnored ==
    [][/\ \A s \in SockIds :
              (/\ s # sock
               /\ socks[s].phase # "none"
               /\ socks'[s] # socks[s]) =>
                  UNCHANGED <<connectionState, qrCode, qrCodeImage>>
       /\ (/\ Len(renders') < Len(renders)
           /\ sock # 0
           /\ socks[sock].phase \in {"new", "connecting"}) =>
              UNCHANGED <<connectionState, qrCode, qrCodeImage>>]_vars

\* C31: a message causes an AI-backend call or a send only if it came in a
\* 'notify' delivery, has content and is not fromMe; the for loop passes a
\* message it does not relay without stopping: a message that is to be
\* relayed is never passed over, and it waits only behind a relayed message
\* of its delivery that is under way.
C31_OnlyNotifyContentRelayed ==
    \A m \in MsgIds :
        /\ (msgs[m].calls > 0 \/ msgs[m].sends # <<>>) =>
               /\ msgs[m].shape.content
               /\ ~msgs[m].shape.fromMe
               /\ msgs[m].pc \in {"backend", "sending", "done"}
        /\ msgs[m].pc = "ignored" => msgs[m].calls = 0 /\ msgs[m].sends = <<>>
        /\ msgs[m].pc = "skipped" => msgs[m].shape.fromMe \/ ~msgs[m].shape.content
        /\ msgs[m].pc = "queued" =>
               \E b \in batches :
                   /\ \E i \in 2..Len(b) : b[i] = m
                   /\ msgs[Head(b)].pc \in {"backend", "sending"}

\* a 'notify' delivery began with a message without content, and the message
\* after it was relayed
C31_Witness ==
    \E m1, m2 \in MsgIds :
        /\ m1 < m2
        /\ ~msgs[m1].shape.content
        /\ msgs[m1].pc = "skipped"
        /\ msgs[m2].calls = 1
        /\ msgs[m2].pc = "done"

====
